---- MODULE Spec2Model ----
(***************************************************************************)
(* The game controller of ceros-ski (src/src/Core/Game.ts) as a state      *)
(* machine: the frame callback run(), the key callback handleKeyDown(),    *)
(* the RUNNING / GAME_OVER state, the score bookkeeping and the viewport.  *)
(*                                                                         *)
(* Numbers: every JavaScript number of the controller is kept as a         *)
(* fixed-point value with one binary fractional digit, i.e. the stored     *)
(* integer is twice the number (Fix).  GAME_WIDTH / 2, GAME_HEIGHT / 2 and  *)
(* the 0.5 score increment are then exact, as they are in IEEE doubles.    *)
(*                                                                         *)
(* Skier, Rhino, ObstacleManager and the Constants module are imported by  *)
(* Game.ts and are not part of the source at hand; they are modelled from  *)
(* the collaborator contracts of the specification (sections 2, 3 and 6).  *)
(***************************************************************************)
EXTENDS Integers, Sequences, FiniteSets, TLC

VARIABLES
    gameState,        \* Game.gameState
    score,            \* Game.score      (Fix)
    maxScore,         \* Game.maxScore   (Fix)
    gameTime,         \* Game.gameTime
    gameWindow,       \* Game.gameWindow : Rect (Fix)
    skier,            \* Game.skier
    rhino,            \* Game.rhino
    obstacleManager,  \* Game.obstacleManager
    imageManager,     \* Game.imageManager: "undefined" or the "loader"
    created,          \* the objects the most recent callback constructed
    startup,          \* "constructed", then "loaded", then "started"
    pendingRuns,      \* calls of run() that are scheduled and not yet made
    now,              \* the external clock read by Date.now()
    trace,            \* the calls made by the most recent callback, in order
    hist              \* history of the session, kept for the properties only

vars == <<gameState, score, maxScore, gameTime, gameWindow, skier, rhino,
          obstacleManager, imageManager, created, startup, pendingRuns, now,
          trace, hist>>

----------------------------------------------------------------------------
(* Bounds of the model *)

MaxCoord == 1

MaxRunFrames == 3

MaxTime == 1

MaxIdleFrames == 2

MaxRhinoMoves == 1

----------------------------------------------------------------------------
(* Numbers *)

Fix(n) == 2 * n

HALF == 1

Max(a, b) == IF a >= b THEN a ELSE b

Min(a, b) == IF a <= b THEN a ELSE b

Range(seq) == {seq[i] : i \in 1..Len(seq)}

----------------------------------------------------------------------------
(* Constants.ts *)

GAME_WIDTH == 8

GAME_HEIGHT == 6

RESTART_KEY == "Enter"

Keys == {"Enter", "ArrowLeft", "ArrowDown", "a"}

----------------------------------------------------------------------------
(* enum GameState *)

RUNNING == "running"

GAME_OVER == "gameOver"

----------------------------------------------------------------------------
(* Core/Utils: Rect *)

Rect(left, top, right, bottom) ==
    [left |-> left, top |-> top, right |-> right, bottom |-> bottom]

----------------------------------------------------------------------------
(* Entities/Skier *)

STATE_SKIING == "skiing"

STATE_CRASHED == "crashed"

STATE_DEAD == "dead"

Skier(x, y) ==
    [x |-> Fix(x), y |-> Fix(y), state |-> STATE_SKIING, direction |-> "down"]

Skier_getPosition(s) == [x |-> s.x, y |-> s.y]

\* One frame of the skier: a skiing skier advances one pixel in its direction,
\* or crashes into an obstacle (hit) and stays where it is.
Skier_update(s, time, hit) ==
    IF s.state # STATE_SKIING THEN s
    ELSE IF hit THEN [s EXCEPT !.state = STATE_CRASHED]
    ELSE CASE s.direction = "left" -> [s EXCEPT !.x = @ - Fix(1)]
           [] OTHER                -> [s EXCEPT !.y = @ + Fix(1)]

\* The skier's own key handling: a dead skier ignores every key; an arrow key
\* turns the skier (and gets a crashed skier going again) and is reported
\* handled; any other key is not handled.
Skier_handleInput(s, key) ==
    IF s.state = STATE_DEAD THEN [skier |-> s, handled |-> FALSE]
    ELSE CASE key = "ArrowLeft" ->
                [skier |-> [s EXCEPT !.direction = "left", !.state = STATE_SKIING],
                 handled |-> TRUE]
           [] key = "ArrowDown" ->
                [skier |-> [s EXCEPT !.direction = "down", !.state = STATE_SKIING],
                 handled |-> TRUE]
           [] OTHER -> [skier |-> s, handled |-> FALSE]

InWorld(s) ==
    /\ s.x >= Fix(-MaxCoord) /\ s.x <= 0
    /\ s.y >= 0 /\ s.y <= Fix(MaxCoord)

----------------------------------------------------------------------------
(* Entities/Rhino *)

Rhino(x, y) == [x |-> Fix(x), y |-> Fix(y)]

RhinoActs == {"wait", "chase", "catch"}

RhinoMoves(r) == (r.x - Fix(-500)) \div Fix(1)

\* One frame of the rhino: it waits, runs one pixel towards the skier, or
\* reaches the skier, which kills the skier.
Rhino_update(r, time, s, act) ==
    CASE act = "catch" ->
           [rhino |-> [x |-> s.x, y |-> s.y],
            skier |-> [s EXCEPT !.state = STATE_DEAD]]
      [] act = "chase" ->
           [rhino |-> [x |-> r.x + Fix(1), y |-> r.y + Fix(1)], skier |-> s]
      [] OTHER -> [rhino |-> r, skier |-> s]

----------------------------------------------------------------------------
(* Entities/Obstacles/ObstacleManager *)

ObstacleManager == [initialPlaced |-> FALSE, newPlaced |-> FALSE]

placeInitialObstacles(om) == [om EXCEPT !.initialPlaced = TRUE]

\* Reconcile the field with the viewport: when the viewport has moved, a new
\* obstacle may be placed (spawn) in the region that came into view.  The
\* field records whether it holds obstacles beyond the initial ones.
placeNewObstacle(om, window, previousWindow, spawn) ==
    IF window # previousWindow /\ spawn
    THEN [om EXCEPT !.newPlaced = TRUE]
    ELSE om

----------------------------------------------------------------------------
(* Game: score bookkeeping and viewport *)

\* Faulty variants of saveMaxScore: the last score overwrites the best one;
\* the best score is never raised.
saveMaxScore_overwrite(s, m) == s

saveMaxScore_keep(s, m) == m

saveMaxScore(s, m) == Max(s, m)

\* Faulty variant of updateScore: a whole point per frame.
updateScore_whole(s) == s + Fix(1)

updateScore(s) == s + HALF

\* Faulty variant of resetScore: half a point is left on the counter.
resetScore_leavesHalf == HALF

resetScore == 0

\* Faulty variant of calculateGameWindow: the skier at the top-left corner.
calculateGameWindow_corner(s) ==
    LET skierPosition == Skier_getPosition(s)
        left == skierPosition.x
        top  == skierPosition.y
    IN  Rect(left, top, left + Fix(GAME_WIDTH), top + Fix(GAME_HEIGHT))

calculateGameWindow(s) ==
    LET skierPosition == Skier_getPosition(s)
        left == skierPosition.x - (Fix(GAME_WIDTH) \div 2)
        top  == skierPosition.y - (Fix(GAME_HEIGHT) \div 2)
    IN  Rect(left, top, left + Fix(GAME_WIDTH), top + Fix(GAME_HEIGHT))

----------------------------------------------------------------------------
(* Game: construction and restart *)

\* Faulty variant of init: the initial obstacles are not placed.
init_noObstacles ==
    [obstacleManager |-> ObstacleManager,
     skier           |-> Skier(0, 0),
     rhino           |-> Rhino(-500, -2000),
     gameWindow      |-> calculateGameWindow(Skier(0, 0)),
     gameState       |-> RUNNING]

\* The fields init() assigns.
init ==
    [obstacleManager |-> placeInitialObstacles(ObstacleManager),
     skier           |-> Skier(0, 0),
     rhino           |-> Rhino(-500, -2000),
     gameWindow      |-> calculateGameWindow(Skier(0, 0)),
     gameState       |-> RUNNING]

\* Faulty variant of initCreated: the asset loader is created anew each time.
initCreated_newLoader(im) ==
    <<"Canvas", "ImageManager", "ObstacleManager", "Skier", "Rhino">>

\* The objects init() constructs, in order: the asset loader only when the
\* field holds none (this.imageManager || new ImageManager()).
initCreated(im) ==
    <<"Canvas">>
    \o (IF im = "undefined" THEN <<"ImageManager">> ELSE <<>>)
    \o <<"ObstacleManager", "Skier", "Rhino">>

\* A run begins: the history of the run starts afresh.
HistOfNewRun(h, s, m) ==
    [h EXCEPT !.runFrames = 0, !.runPeak = s, !.maxAtRunStart = m,
              !.deaths = 0, !.transitions = 0, !.saves = 0, !.resets = 0,
              !.idleFrames = 0]

\* The controller's fields other than maxScore (and the asset loader).
ControllerState(gs, sc, gt, gw, sk, rh, om) ==
    [gameState |-> gs, score |-> sc, gameTime |-> gt, gameWindow |-> gw,
     skier |-> sk, rhino |-> rh, obstacleManager |-> om]

\* new Game(): the field initialisers, then init() and setupInputHandling().
Init ==
    /\ now = 0
    /\ gameTime = now
    /\ score = 0
    /\ maxScore = 0
    /\ obstacleManager = init.obstacleManager
    /\ skier = init.skier
    /\ rhino = init.rhino
    /\ gameWindow = init.gameWindow
    /\ gameState = init.gameState
    /\ imageManager = "loader"
    /\ created = initCreated("undefined")
    /\ startup = "constructed"
    /\ pendingRuns = 0
    /\ trace = <<"constructor", "init", "setupInputHandling">>
    /\ hist = [runFrames |-> 0, runPeak |-> 0, maxAtRunStart |-> 0,
               bestFinished |-> 0, deaths |-> 0, transitions |-> 0,
               saves |-> 0, resets |-> 0, idleFrames |-> 0,
               diedAway |-> FALSE, firstRestart |-> <<>>,
               skierTime |-> -1, rhinoTime |-> -1]

RestartHist ==
    [HistOfNewRun(hist, score', maxScore') EXCEPT
        !.firstRestart =
            IF @ # <<>> THEN @
            ELSE <<ControllerState(gameState', score', gameTime', gameWindow',
                                   skier', rhino', obstacleManager')>>]

\* Faulty variant of restartGame: the best score is cleared with the rest.
restartGame_clearsMax ==
    /\ obstacleManager' = init.obstacleManager
    /\ skier' = init.skier
    /\ rhino' = init.rhino
    /\ gameWindow' = init.gameWindow
    /\ imageManager' = "loader"
    /\ created' = initCreated(imageManager)
    /\ gameState' = RUNNING
    /\ maxScore' = 0
    /\ UNCHANGED <<score, gameTime>>
    /\ hist' = RestartHist

\* Faulty variant of restartGame: the session clock starts again from zero.
restartGame_resetsTime ==
    /\ obstacleManager' = init.obstacleManager
    /\ skier' = init.skier
    /\ rhino' = init.rhino
    /\ gameWindow' = init.gameWindow
    /\ imageManager' = "loader"
    /\ created' = initCreated(imageManager)
    /\ gameState' = RUNNING
    /\ gameTime' = 0
    /\ UNCHANGED <<score, maxScore>>
    /\ hist' = RestartHist

restartGame ==
    /\ obstacleManager' = init.obstacleManager
    /\ skier' = init.skier
    /\ rhino' = init.rhino
    /\ gameWindow' = init.gameWindow
    /\ imageManager' = "loader"
    /\ created' = initCreated(imageManager)
    /\ gameState' = RUNNING
    /\ UNCHANGED <<score, maxScore, gameTime>>
    /\ hist' = RestartHist

----------------------------------------------------------------------------
(* Game: the frame callback *)

\* The calls of updateGameWindow(), given the skier it ends with.
updateGameWindowCalls(s) ==
    <<"Date.now", "calculateGameWindow", "placeNewObstacle", "skier.update",
      "rhino.update">>
    \o (IF s.state = STATE_DEAD THEN <<"saveMaxScore", "resetScore">>
                                ELSE <<"updateScore">>)

\* Faulty variant of updateGameWindow: the death check looks at the skier
\* before the rhino has been updated.
updateGameWindow_checkBeforeRhino(hit, act, spawn) ==
    LET time == now
        previousGameWindow == gameWindow
        window == calculateGameWindow(skier)
        field == placeNewObstacle(obstacleManager, window, previousGameWindow, spawn)
        moved == Skier_update(skier, time, hit)
        chased == Rhino_update(rhino, time, moved, act)
        dead == moved.state = STATE_DEAD
        saved == saveMaxScore(score, maxScore)
    IN  /\ InWorld(moved)
        /\ act = "chase" => RhinoMoves(rhino) < MaxRhinoMoves
        /\ ~dead => hist.runFrames < MaxRunFrames
        /\ gameTime' = time
        /\ gameWindow' = window
        /\ obstacleManager' = field
        /\ skier' = chased.skier
        /\ rhino' = chased.rhino
        /\ imageManager' = imageManager
        /\ created' = <<>>
        /\ IF dead
           THEN /\ gameState' = GAME_OVER
                /\ maxScore' = saved
                /\ score' = resetScore
                /\ hist' = [hist EXCEPT
                       !.skierTime = time,
                       !.rhinoTime = time,
                       !.deaths = @ + 1,
                       !.transitions = IF gameState = RUNNING THEN @ + 1 ELSE @,
                       !.saves = @ + 1,
                       !.resets = @ + 1,
                       !.bestFinished = Max(@, hist.runPeak),
                       !.diedAway = Skier_getPosition(skier') # [x |-> 0, y |-> 0]]
           ELSE /\ gameState' = gameState
                /\ score' = updateScore(score)
                /\ maxScore' = maxScore
                /\ hist' = [hist EXCEPT
                       !.skierTime = time,
                       !.rhinoTime = time,
                       !.runFrames = @ + 1,
                       !.runPeak = Max(@, score')]

\* Faulty variant of updateGameWindow: the viewport is computed after the
\* entities have been updated.
updateGameWindow_windowLast(hit, act, spawn) ==
    LET time == now
        previousGameWindow == gameWindow
        window == calculateGameWindow(Skier_update(skier, now, hit))
        field == placeNewObstacle(obstacleManager, window, previousGameWindow, spawn)
        moved == Skier_update(skier, time, hit)
        chased == Rhino_update(rhino, time, moved, act)
        dead == chased.skier.state = STATE_DEAD
        saved == saveMaxScore(score, maxScore)
    IN  /\ InWorld(moved)
        /\ act = "chase" => RhinoMoves(rhino) < MaxRhinoMoves
        /\ ~dead => hist.runFrames < MaxRunFrames
        /\ gameTime' = time
        /\ gameWindow' = window
        /\ obstacleManager' = field
        /\ skier' = chased.skier
        /\ rhino' = chased.rhino
        /\ imageManager' = imageManager
        /\ created' = <<>>
        /\ IF dead
           THEN /\ gameState' = GAME_OVER
                /\ maxScore' = saved
                /\ score' = resetScore
                /\ hist' = [hist EXCEPT
                       !.skierTime = time,
                       !.rhinoTime = time,
                       !.deaths = @ + 1,
                       !.transitions = IF gameState = RUNNING THEN @ + 1 ELSE @,
                       !.saves = @ + 1,
                       !.resets = @ + 1,
                       !.bestFinished = Max(@, hist.runPeak),
                       !.diedAway = Skier_getPosition(skier') # [x |-> 0, y |-> 0]]
           ELSE /\ gameState' = gameState
                /\ score' = updateScore(score)
                /\ maxScore' = maxScore
                /\ hist' = [hist EXCEPT
                       !.skierTime = time,
                       !.rhinoTime = time,
                       !.runFrames = @ + 1,
                       !.runPeak = Max(@, score')]

\* Faulty variant of updateGameWindow: the score is cleared before the best
\* score is saved.
updateGameWindow_resetFirst(hit, act, spawn) ==
    LET time == now
        previousGameWindow == gameWindow
        window == calculateGameWindow(skier)
        field == placeNewObstacle(obstacleManager, window, previousGameWindow, spawn)
        moved == Skier_update(skier, time, hit)
        chased == Rhino_update(rhino, time, moved, act)
        dead == chased.skier.state = STATE_DEAD
        saved == saveMaxScore(resetScore, maxScore)
    IN  /\ InWorld(moved)
        /\ act = "chase" => RhinoMoves(rhino) < MaxRhinoMoves
        /\ ~dead => hist.runFrames < MaxRunFrames
        /\ gameTime' = time
        /\ gameWindow' = window
        /\ obstacleManager' = field
        /\ skier' = chased.skier
        /\ rhino' = chased.rhino
        /\ imageManager' = imageManager
        /\ created' = <<>>
        /\ IF dead
           THEN /\ gameState' = GAME_OVER
                /\ maxScore' = saved
                /\ score' = resetScore
                /\ hist' = [hist EXCEPT
                       !.skierTime = time,
                       !.rhinoTime = time,
                       !.deaths = @ + 1,
                       !.transitions = IF gameState = RUNNING THEN @ + 1 ELSE @,
                       !.saves = @ + 1,
                       !.resets = @ + 1,
                       !.bestFinished = Max(@, hist.runPeak),
                       !.diedAway = Skier_getPosition(skier') # [x |-> 0, y |-> 0]]
           ELSE /\ gameState' = gameState
                /\ score' = updateScore(score)
                /\ maxScore' = maxScore
                /\ hist' = [hist EXCEPT
                       !.skierTime = time,
                       !.rhinoTime = time,
                       !.runFrames = @ + 1,
                       !.runPeak = Max(@, score')]

\* hit, act and spawn are what the collaborators decide in this frame.
updateGameWindow(hit, act, spawn) ==
    LET time == now
        previousGameWindow == gameWindow
        window == calculateGameWindow(skier)
        field == placeNewObstacle(obstacleManager, window, previousGameWindow, spawn)
        moved == Skier_update(skier, time, hit)
        chased == Rhino_update(rhino, time, moved, act)
        dead == chased.skier.state = STATE_DEAD
        saved == saveMaxScore(score, maxScore)
    IN  /\ InWorld(moved)
        /\ act = "chase" => RhinoMoves(rhino) < MaxRhinoMoves
        /\ ~dead => hist.runFrames < MaxRunFrames
        /\ gameTime' = time
        /\ gameWindow' = window
        /\ obstacleManager' = field
        /\ skier' = chased.skier
        /\ rhino' = chased.rhino
        /\ imageManager' = imageManager
        /\ created' = <<>>
        /\ IF dead
           THEN /\ gameState' = GAME_OVER
                /\ maxScore' = saved
                /\ score' = resetScore
                /\ hist' = [hist EXCEPT
                       !.skierTime = time,
                       !.rhinoTime = time,
                       !.deaths = @ + 1,
                       !.transitions = IF gameState = RUNNING THEN @ + 1 ELSE @,
                       !.saves = @ + 1,
                       !.resets = @ + 1,
                       !.bestFinished = Max(@, hist.runPeak),
                       !.diedAway = Skier_getPosition(skier') # [x |-> 0, y |-> 0]]
           ELSE /\ gameState' = gameState
                /\ score' = updateScore(score)
                /\ maxScore' = maxScore
                /\ hist' = [hist EXCEPT
                       !.skierTime = time,
                       !.rhinoTime = time,
                       !.runFrames = @ + 1,
                       !.runPeak = Max(@, score')]

drawGameWindow ==
    <<"setDrawOffset", "skier.draw", "rhino.draw", "drawObstacles", "drawScore">>

\* Faulty variant of drawGameOver: the game window is drawn under the message.
drawGameOver_overWindow ==
    drawGameWindow \o <<"drawText Game Over!", "drawText Press Enter to restart">>

drawGameOver ==
    <<"drawText Game Over!", "drawText Press Enter to restart">>

\* Faulty variant of run: the frame is advanced whatever the game state.
run_noStateCheck ==
    /\ pendingRuns > 0
    /\ pendingRuns' = (pendingRuns - 1) + 1
    /\ startup' = startup
    /\ \E hit \in BOOLEAN, act \in RhinoActs, spawn \in BOOLEAN :
          updateGameWindow(hit, act, spawn)
    /\ trace' = <<"run", "clearCanvas">> \o updateGameWindowCalls(skier')
                  \o drawGameWindow \o <<"requestAnimationFrame">>
    /\ now' = now

\* Faulty variant of run: the game-over branch returns without asking for the
\* next animation frame.
run_noReschedule ==
    /\ pendingRuns > 0
    /\ startup' = startup
    /\ IF gameState = RUNNING
       THEN /\ \E hit \in BOOLEAN, act \in RhinoActs, spawn \in BOOLEAN :
                  updateGameWindow(hit, act, spawn)
            /\ trace' = <<"run", "clearCanvas">> \o updateGameWindowCalls(skier')
                          \o drawGameWindow \o <<"requestAnimationFrame">>
            /\ pendingRuns' = (pendingRuns - 1) + 1
            /\ now' = now
       ELSE /\ trace' = <<"run">> \o drawGameOver
            /\ pendingRuns' = pendingRuns - 1
            /\ hist' = [hist EXCEPT !.idleFrames = Min(@ + 1, MaxIdleFrames)]
            /\ created' = <<>>
            /\ UNCHANGED <<gameState, score, maxScore, gameTime, gameWindow,
                           skier, rhino, obstacleManager, imageManager, now>>

\* A scheduled call of run() is made; it ends by scheduling the next one.
run ==
    /\ pendingRuns > 0
    /\ pendingRuns' = (pendingRuns - 1) + 1
    /\ startup' = startup
    /\ IF gameState = RUNNING
       THEN /\ \E hit \in BOOLEAN, act \in RhinoActs, spawn \in BOOLEAN :
                  updateGameWindow(hit, act, spawn)
            /\ trace' = <<"run", "clearCanvas">> \o updateGameWindowCalls(skier')
                          \o drawGameWindow \o <<"requestAnimationFrame">>
            /\ now' = now
       ELSE /\ trace' = <<"run">> \o drawGameOver \o <<"requestAnimationFrame">>
            /\ hist' = [hist EXCEPT !.idleFrames = Min(@ + 1, MaxIdleFrames)]
            /\ created' = <<>>
            /\ UNCHANGED <<gameState, score, maxScore, gameTime, gameWindow,
                           skier, rhino, obstacleManager, imageManager, now>>

----------------------------------------------------------------------------
(* Game: the key callback *)

\* Faulty variant of handleKeyDown: any key restarts a game that is over.
handleKeyDown_anyKey(key) ==
    IF gameState = GAME_OVER
    THEN /\ restartGame
         /\ trace' = <<"handleKeyDown", key, "restartGame", "init", "preventDefault">>
         /\ UNCHANGED <<startup, pendingRuns, now>>
    ELSE LET input == Skier_handleInput(skier, key)
         IN  /\ skier' = input.skier
             /\ trace' = <<"handleKeyDown", key, "skier.handleInput">>
                           \o (IF input.handled THEN <<"preventDefault">> ELSE <<>>)
             /\ created' = <<>>
             /\ UNCHANGED <<gameState, score, maxScore, gameTime, gameWindow,
                            rhino, obstacleManager, imageManager, startup,
                            pendingRuns, now, hist>>

\* Faulty variant of handleKeyDown: the restart branch does not return, and
\* the key goes on to the new skier.
handleKeyDown_noReturn(key) ==
    IF gameState = GAME_OVER /\ key = RESTART_KEY
    THEN LET input == Skier_handleInput(init.skier, key)
         IN  /\ obstacleManager' = init.obstacleManager
             /\ skier' = input.skier
             /\ rhino' = init.rhino
             /\ gameWindow' = init.gameWindow
             /\ imageManager' = "loader"
             /\ created' = initCreated(imageManager)
             /\ gameState' = RUNNING
             /\ UNCHANGED <<score, maxScore, gameTime, startup, pendingRuns, now>>
             /\ hist' = RestartHist
             /\ trace' = <<"handleKeyDown", key, "restartGame", "init",
                            "preventDefault", "skier.handleInput">>
                           \o (IF input.handled THEN <<"preventDefault">> ELSE <<>>)
    ELSE LET input == Skier_handleInput(skier, key)
         IN  /\ skier' = input.skier
             /\ trace' = <<"handleKeyDown", key, "skier.handleInput">>
                           \o (IF input.handled THEN <<"preventDefault">> ELSE <<>>)
             /\ created' = <<>>
             /\ UNCHANGED <<gameState, score, maxScore, gameTime, gameWindow,
                            rhino, obstacleManager, imageManager, startup,
                            pendingRuns, now, hist>>

\* Faulty variant of handleKeyDown: preventDefault whether or not the skier
\* handled the key.
handleKeyDown_alwaysPrevent(key) ==
    IF gameState = GAME_OVER /\ key = RESTART_KEY
    THEN /\ restartGame
         /\ trace' = <<"handleKeyDown", key, "restartGame", "init", "preventDefault">>
         /\ UNCHANGED <<startup, pendingRuns, now>>
    ELSE LET input == Skier_handleInput(skier, key)
         IN  /\ skier' = input.skier
             /\ trace' = <<"handleKeyDown", key, "skier.handleInput",
                            "preventDefault">>
             /\ created' = <<>>
             /\ UNCHANGED <<gameState, score, maxScore, gameTime, gameWindow,
                            rhino, obstacleManager, imageManager, startup,
                            pendingRuns, now, hist>>

handleKeyDown(key) ==
    IF gameState = GAME_OVER /\ key = RESTART_KEY
    THEN /\ restartGame
         /\ trace' = <<"handleKeyDown", key, "restartGame", "init", "preventDefault">>
         /\ UNCHANGED <<startup, pendingRuns, now>>
    ELSE LET input == Skier_handleInput(skier, key)
         IN  /\ skier' = input.skier
             /\ trace' = <<"handleKeyDown", key, "skier.handleInput">>
                           \o (IF input.handled THEN <<"preventDefault">> ELSE <<>>)
             /\ created' = <<>>
             /\ UNCHANGED <<gameState, score, maxScore, gameTime, gameWindow,
                            rhino, obstacleManager, imageManager, startup,
                            pendingRuns, now, hist>>

----------------------------------------------------------------------------
(* The environment and the specification *)

\* Time passes between callbacks.
ClockTick ==
    /\ now < MaxTime
    /\ now' = now + 1
    /\ UNCHANGED <<gameState, score, maxScore, gameTime, gameWindow, skier,
                   rhino, obstacleManager, imageManager, created, startup,
                   pendingRuns, trace, hist>>

\* load(): the images are loaded and the promise is fulfilled.
load ==
    /\ startup = "constructed"
    /\ startup' = "loaded"
    /\ trace' = <<"load", "imageManager.loadImages">>
    /\ created' = <<>>
    /\ UNCHANGED <<gameState, score, maxScore, gameTime, gameWindow, skier,
                   rhino, obstacleManager, imageManager, pendingRuns, now, hist>>

\* The entry point, which has awaited load(), makes the first call of run().
startGame ==
    /\ startup = "loaded"
    /\ startup' = "started"
    /\ pendingRuns' = pendingRuns + 1
    /\ UNCHANGED <<gameState, score, maxScore, gameTime, gameWindow, skier,
                   rhino, obstacleManager, imageManager, created, now, trace,
                   hist>>

\* The keydown listener is registered by the constructor.
KeyDown == \E key \in Keys : handleKeyDown(key)

Next == load \/ startGame \/ run \/ KeyDown \/ ClockTick

Spec == Init /\ [][Next]_vars

\* The browser resolves the loader's promise, the entry point then makes its
\* call of run(), and a requested animation frame is delivered; key presses
\* and the passing of time are not promised.
FairSpec ==
    /\ Spec
    /\ WF_vars(load)
    /\ WF_vars(startGame)
    /\ WF_vars(run)

----------------------------------------------------------------------------
(* Properties *)

\* The callback that led to the current state.
AfterRestart == Len(trace) >= 3 /\ trace[3] = "restartGame"

AfterDeathFrame == trace[1] = "run" /\ "saveMaxScore" \in Range(trace)

GameOverFrameCalls ==
    <<"run", "drawText Game Over!", "drawText Press Enter to restart",
      "requestAnimationFrame">>

\* C1 (max-score retention): in the frame that detects the skier's death,
\* maxScore becomes at least the highest score S the run reached and score
\* becomes 0; and when the run reached less than an earlier run did, maxScore
\* keeps the value it had before the frame.
C1_MaxScoreRetention ==
    [][(gameState = RUNNING /\ gameState' = GAME_OVER) =>
          /\ maxScore' >= hist.runPeak
          /\ maxScore' >= score
          /\ score' = 0
          /\ (hist.runPeak < hist.bestFinished => maxScore' = maxScore)]_vars

C1_Witness ==
    /\ gameState = GAME_OVER
    /\ AfterDeathFrame
    /\ hist.runPeak > 0
    /\ hist.runPeak < hist.bestFinished

C3_GameOverFrameIsInert ==
    [][(gameState = GAME_OVER /\ run) =>
          /\ UNCHANGED <<gameState, score, maxScore, gameTime, gameWindow,
                         skier, rhino, obstacleManager>>
          /\ trace' = GameOverFrameCalls]_vars

C3_Witness ==
    /\ gameState = GAME_OVER
    /\ trace = GameOverFrameCalls
    /\ skier.state = STATE_DEAD

\* C4 (no double death handling): from a death until the restart there has
\* been exactly one death, one RUNNING -> GAME_OVER transition, one
\* saveMaxScore and one resetScore, however many frames followed; before the
\* death of a run there has been none; and a frame that starts in GAME_OVER
\* calls neither saveMaxScore nor resetScore.
C4_NoDoubleDeathHandling ==
    /\ [](gameState = GAME_OVER =>
             /\ hist.deaths = 1 /\ hist.transitions = 1
             /\ hist.saves = 1 /\ hist.resets = 1)
    /\ [](gameState = RUNNING =>
             /\ hist.deaths = 0 /\ hist.transitions = 0
             /\ hist.saves = 0 /\ hist.resets = 0)
    /\ [][(gameState = GAME_OVER /\ run) =>
             /\ "saveMaxScore" \notin Range(trace')
             /\ "resetScore" \notin Range(trace')]_vars

C4_Witness ==
    /\ gameState = GAME_OVER
    /\ hist.idleFrames >= 2
    /\ hist.transitions = 1 /\ hist.saves = 1 /\ hist.resets = 1

\* C5 (score accrual): while a run is going on, after N frames of the run
\* score is N times 0.5 and maxScore is what it was when the run began.
C5_ScoreAccrual ==
    gameState = RUNNING =>
        /\ score = hist.runFrames * HALF
        /\ maxScore = hist.maxAtRunStart

C5_Witness ==
    /\ gameState = RUNNING
    /\ hist.runFrames >= 2
    /\ hist.maxAtRunStart > 0
    /\ score = 2 * HALF

\* C6 as stated (score invariant): in every state between callbacks
\* maxScore >= score.
C6_MaxAtLeastScore == maxScore >= score

\* C6 amended: maxScore is at least the highest score of every run that has
\* ended, and maxScore >= score whenever the game is over; during a run the
\* score may exceed maxScore until the death of the run is handled.
C6_MaxAtLeastFinishedRuns ==
    /\ maxScore >= hist.bestFinished
    /\ gameState = GAME_OVER => maxScore >= score /\ maxScore >= hist.runPeak

C6_Witness ==
    /\ gameState = RUNNING
    /\ hist.bestFinished > 0
    /\ score > maxScore

\* C7 (restart and the scores): handling the restart key while the game is
\* over ends in RUNNING with score = 0 and with score and maxScore as they
\* were; a restart happens only from GAME_OVER and only on the restart key;
\* and a run that has had no frame yet has score 0.
C7_RestartKeepsScores ==
    /\ [][(gameState = GAME_OVER /\ handleKeyDown(RESTART_KEY)) =>
             /\ gameState' = RUNNING
             /\ score' = 0
             /\ score' = score
             /\ maxScore' = maxScore]_vars
    /\ [][\A key \in Keys :
             (handleKeyDown(key) /\ "restartGame" \in Range(trace')) =>
                 gameState = GAME_OVER /\ key = RESTART_KEY]_vars
    /\ [](gameState = RUNNING /\ hist.runFrames = 0 => score = 0)

C7_Witness ==
    /\ AfterRestart
    /\ gameState = RUNNING
    /\ score = 0
    /\ maxScore = 3 * HALF

\* What init() leaves behind, whatever the previous session was.
FreshEntities ==
    /\ skier = [x |-> 0, y |-> 0, state |-> STATE_SKIING, direction |-> "down"]
    /\ rhino = [x |-> Fix(-500), y |-> Fix(-2000)]
    /\ obstacleManager = [initialPlaced |-> TRUE, newPlaced |-> FALSE]
    /\ 2 * gameWindow.left = -Fix(GAME_WIDTH)
    /\ 2 * gameWindow.top = -Fix(GAME_HEIGHT)
    /\ 2 * gameWindow.right = Fix(GAME_WIDTH)
    /\ 2 * gameWindow.bottom = Fix(GAME_HEIGHT)

\* C8 as stated (restart structure): after a restart the entities and the
\* viewport are the fresh ones, and the controller state apart from maxScore
\* is the one the first restart produced.
C8_RestartSameState ==
    AfterRestart =>
        /\ FreshEntities
        /\ ControllerState(gameState, score, gameTime, gameWindow, skier,
                           rhino, obstacleManager) = hist.firstRestart[1]

\* C8 amended: after a restart the skier is a fresh one at (0, 0), the rhino
\* a fresh one at (-500, -2000), the obstacle field a fresh one with its
\* initial obstacles placed and the viewport (-W/2, -H/2, W/2, H/2), and the
\* controller state apart from maxScore and gameTime is the one the first
\* restart produced; gameTime keeps the time of the last RUNNING frame.
C8_RestartSameStateButTime ==
    AfterRestart =>
        /\ FreshEntities
        /\ ControllerState(gameState, score, gameTime, gameWindow, skier,
                           rhino, obstacleManager)
             = [hist.firstRestart[1] EXCEPT !.gameTime = gameTime]

C8_Witness ==
    /\ AfterRestart
    /\ hist.diedAway
    /\ hist.firstRestart[1].gameTime # gameTime

\* The rectangle w is the GAME_WIDTH x GAME_HEIGHT one centred on p.
CentredOn(w, p) ==
    /\ 2 * w.left = 2 * p.x - Fix(GAME_WIDTH)
    /\ 2 * w.top = 2 * p.y - Fix(GAME_HEIGHT)
    /\ w.right = w.left + Fix(GAME_WIDTH)
    /\ w.bottom = w.top + Fix(GAME_HEIGHT)

\* C9 (viewport centring): calculateGameWindow sets gameWindow to the W x H
\* rectangle with left = x - W/2 and top = y - H/2 for the position (x, y)
\* the skier has when it is called: the skier's position at the start of a
\* RUNNING frame, and the new skier's position in the constructor and in a
\* restart; right - left = W and bottom - top = H hold in every state.
C9_ViewportCentring ==
    /\ [](/\ gameWindow.right - gameWindow.left = Fix(GAME_WIDTH)
          /\ gameWindow.bottom - gameWindow.top = Fix(GAME_HEIGHT))
    /\ [][(gameState = RUNNING /\ run) =>
             CentredOn(gameWindow', Skier_getPosition(skier))]_vars
    /\ [](trace[1] = "constructor" \/ AfterRestart =>
             CentredOn(gameWindow, Skier_getPosition(skier)))

C9_Witness ==
    /\ trace[1] = "run"
    /\ "calculateGameWindow" \in Range(trace)
    /\ gameWindow.left = Fix(-1) - GAME_WIDTH
    /\ gameWindow.top = Fix(1) - GAME_HEIGHT

\* C10 (restart key while the game is over): handling the restart key in
\* GAME_OVER restarts the game, calls preventDefault and does not call
\* handleInput of any skier; the new skier is as init() made it.
C10_RestartKeyNotForwarded ==
    [][(gameState = GAME_OVER /\ handleKeyDown(RESTART_KEY)) =>
          /\ gameState' = RUNNING
          /\ "restartGame" \in Range(trace')
          /\ "preventDefault" \in Range(trace')
          /\ "skier.handleInput" \notin Range(trace')
          /\ skier' = [x |-> 0, y |-> 0, state |-> STATE_SKIING,
                       direction |-> "down"]]_vars

C10_Witness ==
    trace = <<"handleKeyDown", RESTART_KEY, "restartGame", "init", "preventDefault">>

\* The number of times call occurs in the calls of a callback.
\* The steps of run are the ones that leave a trace beginning with "run" and
\* change neither the clock nor the start-up phase: load and handleKeyDown
\* begin their traces otherwise, ClockTick moves the clock and startGame the
\* start-up phase.
RunStep == trace'[1] = "run" /\ now' = now /\ startup' = startup

RunStepIsRun == [][RunStep <=> run]_vars

Count(calls, call) == Cardinality({i \in 1..Len(calls) : calls[i] = call})

\* C11 (key forwarding): a key event other than the restart key in GAME_OVER
\* (the restart key while RUNNING included) is forwarded exactly once to the
\* current skier's handleInput, preventDefault is called if and only if the
\* skier reported the key handled, and gameState, score and maxScore are
\* unchanged: there is no restart.
C11_OtherKeysForwardedOnce ==
    [][\A key \in Keys :
          (~(gameState = GAME_OVER /\ key = RESTART_KEY) /\ handleKeyDown(key)) =>
              /\ Count(trace', "skier.handleInput") = 1
              /\ skier' = Skier_handleInput(skier, key).skier
              /\ Count(trace', "preventDefault")
                   = (IF Skier_handleInput(skier, key).handled THEN 1 ELSE 0)
              /\ "restartGame" \notin Range(trace')
              /\ UNCHANGED <<gameState, score, maxScore>>]_vars

C11_Witness ==
    /\ gameState = RUNNING
    /\ score > 0
    /\ trace = <<"handleKeyDown", RESTART_KEY, "skier.handleInput">>

\* C12 (start-up ordering): until load() has completed, neither run() nor
\* handleKeyDown() has been executed.
C12_NothingBeforeLoad ==
    startup = "constructed" => trace[1] \notin {"run", "handleKeyDown"}

IsDrawCall(call) ==
    call \in {"setDrawOffset", "skier.draw", "rhino.draw", "drawObstacles",
              "drawScore"}

AfterRunningFrame == trace[1] = "run" /\ "clearCanvas" \in Range(trace)

\* C13 (draw order): in a RUNNING frame the draw offset is set, then the
\* obstacle field is drawn, then the skier, then the rhino, and the score
\* overlay last.
C13_ObstaclesDrawnFirst ==
    AfterRunningFrame =>
        SelectSeq(trace, IsDrawCall)
          = <<"setDrawOffset", "drawObstacles", "skier.draw", "rhino.draw",
              "drawScore">>

\* C14 (asset loader kept across restarts): the imageManager field always
\* holds the loader created at construction; no step after construction
\* creates an ImageManager or loads the images again once they are loaded;
\* and every restart creates a new obstacle field, a new skier and a new
\* rhino.
C14_LoaderKeptEntitiesReplaced ==
    /\ [](imageManager = "loader")
    /\ [][/\ "ImageManager" \in Range(created') => created' = created
          /\ (trace' # trace /\ "imageManager.loadImages" \in Range(trace'))
                => startup = "constructed"
          /\ \A key \in Keys :
                (handleKeyDown(key) /\ "restartGame" \in Range(trace')) =>
                    /\ Count(created', "ObstacleManager") = 1
                    /\ Count(created', "Skier") = 1
                    /\ Count(created', "Rhino") = 1
                    /\ Count(created', "ImageManager") = 0]_vars

C14_Witness ==
    /\ AfterRestart
    /\ startup = "started"
    /\ imageManager = "loader"
    /\ created = <<"Canvas", "ObstacleManager", "Skier", "Rhino">>

UpdateCallsAlive ==
    <<"run", "clearCanvas", "Date.now", "calculateGameWindow", "placeNewObstacle",
      "skier.update", "rhino.update", "updateScore", "requestAnimationFrame">>

UpdateCallsDead ==
    <<"run", "clearCanvas", "Date.now", "calculateGameWindow", "placeNewObstacle",
      "skier.update", "rhino.update", "saveMaxScore", "resetScore",
      "requestAnimationFrame">>

IsUpdateCall(call) == ~IsDrawCall(call)

\* Every draw call of the frame comes after its last update call.
DrawsAfterUpdates(calls) ==
    \A i, j \in 1..Len(calls) :
        (IsDrawCall(calls[i]) /\ IsUpdateCall(calls[j])
           /\ calls[j] # "requestAnimationFrame") => j < i

\* C15 (update order): a RUNNING frame clears the surface, stamps gameTime,
\* recomputes the viewport, reconciles the obstacles, updates the skier, then
\* the rhino, then checks for death and either saves and resets the score or
\* increments it, and only then draws; the death check sees the skier as the
\* two updates of the same frame left it, so the frame ends in GAME_OVER
\* exactly when the skier is dead after them.
C15_UpdateOrder ==
    /\ [](AfterRunningFrame =>
             /\ SelectSeq(trace, IsUpdateCall)
                  = (IF skier.state = STATE_DEAD THEN UpdateCallsDead
                                                 ELSE UpdateCallsAlive)
             /\ DrawsAfterUpdates(trace))
    /\ [][(gameState = RUNNING /\ RunStep) =>
             /\ gameState' = GAME_OVER <=> skier'.state = STATE_DEAD
             /\ gameTime' = now]_vars

C15_Witness ==
    /\ AfterRunningFrame
    /\ gameState = GAME_OVER
    /\ skier.state = STATE_DEAD
    /\ Skier_getPosition(rhino) = Skier_getPosition(skier)
    /\ skier.y = Fix(1)

\* C16 as stated (viewport snapping): whenever the game is RUNNING, between
\* frames and so at the moment the entities are drawn, gameWindow is the
\* W x H rectangle centred on the skier's current position.
C16_WindowOnCurrentSkier ==
    gameState = RUNNING => CentredOn(gameWindow, Skier_getPosition(skier))

\* C16 amended: a RUNNING frame leaves gameWindow centred on the position the
\* skier had when the frame began, before the frame's skier.update, so it is
\* not centred on the skier when the skier moved in the frame; until the
\* first frame of a run it is centred on the new skier.
C16_WindowOnSkierBeforeUpdate ==
    /\ [][(gameState = RUNNING /\ RunStep) =>
             /\ CentredOn(gameWindow', Skier_getPosition(skier))
             /\ Skier_getPosition(skier') # Skier_getPosition(skier) =>
                    ~CentredOn(gameWindow', Skier_getPosition(skier'))]_vars
    /\ []((gameState = RUNNING /\ hist.runFrames = 0) =>
             CentredOn(gameWindow, Skier_getPosition(skier)))

C16_Witness ==
    /\ gameState = RUNNING
    /\ AfterRunningFrame
    /\ ~CentredOn(gameWindow, Skier_getPosition(skier))
    /\ CentredOn(gameWindow, [x |-> skier.x, y |-> skier.y - Fix(1)])

IndexOf(calls, call) == CHOOSE i \in 1..Len(calls) : calls[i] = call

\* C17 (death transition): a RUNNING frame sets gameState to GAME_OVER if and
\* only if the skier is dead after the frame's skier and rhino updates; on
\* that frame maxScore becomes max(maxScore, score) with saveMaxScore called
\* before resetScore, score becomes 0 and updateScore is not called; on every
\* other RUNNING frame updateScore is called exactly once, the score grows by
\* 0.5, maxScore is unchanged and gameState stays RUNNING.
C17_DeathTransition ==
    [][(gameState = RUNNING /\ RunStep) =>
          IF skier'.state = STATE_DEAD
          THEN /\ gameState' = GAME_OVER
               /\ maxScore' = Max(maxScore, score)
               /\ score' = 0
               /\ Count(trace', "updateScore") = 0
               /\ Count(trace', "saveMaxScore") = 1
               /\ Count(trace', "resetScore") = 1
               /\ IndexOf(trace', "rhino.update") < IndexOf(trace', "saveMaxScore")
               /\ IndexOf(trace', "saveMaxScore") < IndexOf(trace', "resetScore")
          ELSE /\ gameState' = RUNNING
               /\ Count(trace', "updateScore") = 1
               /\ score' = score + HALF
               /\ maxScore' = maxScore
               /\ Count(trace', "saveMaxScore") = 0
               /\ Count(trace', "resetScore") = 0]_vars

C17_Witness ==
    /\ gameState = GAME_OVER
    /\ AfterDeathFrame
    /\ skier.state = STATE_DEAD
    /\ hist.runPeak > hist.maxAtRunStart
    /\ maxScore = hist.runPeak
    /\ hist.maxAtRunStart > 0
    /\ score = 0

\* C18 (session clock): a RUNNING frame reads the clock exactly once, stores
\* the reading in gameTime and passes that same value to skier.update and to
\* rhino.update; with a clock that never goes back, gameTime never decreases
\* over frames, key presses and restarts, and neither a GAME_OVER frame nor a
\* key press (the restart included) changes it.
C18_SessionClock ==
    /\ [][gameTime' >= gameTime]_vars
    /\ [][(gameState = RUNNING /\ RunStep) =>
             /\ Count(trace', "Date.now") = 1
             /\ gameTime' = now
             /\ hist'.skierTime = gameTime'
             /\ hist'.rhinoTime = gameTime']_vars
    /\ [][(gameState = GAME_OVER /\ RunStep) =>
             /\ Count(trace', "Date.now") = 0
             /\ gameTime' = gameTime]_vars
    /\ [][\A key \in Keys : handleKeyDown(key) =>
             /\ Count(trace', "Date.now") = 0
             /\ gameTime' = gameTime]_vars

C18_Witness ==
    /\ AfterRestart
    /\ gameTime > 0
    /\ gameTime = now
    /\ hist.skierTime = gameTime
    /\ hist.rhinoTime = gameTime

\* C19 (frame loop liveness and non-overlap): every call of run, in either
\* state, ends by requesting exactly one next animation frame, so at most one
\* frame callback is pending and, once the loop has started, exactly one; the
\* restart key is always accepted in GAME_OVER and leads back to RUNNING; and
\* with callbacks delivered fairly the loop starts and frames are run again
\* and again for ever.
C19_FrameLoop ==
    /\ [](pendingRuns <= 1)
    /\ [](startup = "started" => pendingRuns = 1)
    /\ [][RunStep =>
             /\ Count(trace', "requestAnimationFrame") = 1
             /\ trace'[Len(trace')] = "requestAnimationFrame"
             /\ pendingRuns' = 1]_vars
    /\ [](gameState = GAME_OVER => ENABLED handleKeyDown(RESTART_KEY))
    /\ [][(gameState = GAME_OVER /\ handleKeyDown(RESTART_KEY)) =>
             gameState' = RUNNING]_vars
    /\ <>[](startup = "started")
    /\ []<>(trace[1] = "run")

C19_Witness ==
    /\ startup = "started"
    /\ pendingRuns = 1
    /\ gameState = RUNNING
    /\ hist.runFrames > 0
    /\ hist.bestFinished > 0
    /\ trace[1] = "run"

\* C20 (implicit): whenever the game is over between callbacks the score is
\* 0, and no step of the controller (frame, key press, restart) makes
\* maxScore smaller.
C20_OverMeansZeroAndMaxMonotone ==
    /\ [](gameState = GAME_OVER => score = 0)
    /\ [][maxScore' >= maxScore]_vars

C20_Witness ==
    /\ gameState = GAME_OVER
    /\ trace[1] = "handleKeyDown"
    /\ score = 0
    /\ hist.runPeak > 0
    /\ maxScore > hist.runPeak

====
